---- MODULE Spec2Model ----
(***************************************************************************)
(* Model of cpp/crypto-algorithms/keccak256.cpp: the Keccak256 helpers,    *)
(* the MerkleTree class (constructor, buildTree, getRoot, printTree) and   *)
(* the command-line entry point main.                                      *)
(*                                                                         *)
(* Text.  A std::string is a sequence of symbols.  A symbol is a tuple:    *)
(*   <<n>>         one character of ordinary text (Byte),                  *)
(*   <<1, input>>  the 64 lowercase hex digits that spell the digest of    *)
(*                 `input` (HexDigits),                                    *)
(*   <<2, input>>  the 40 hex digits of the last 20 bytes of that digest,  *)
(*   <<3, key>>    the 64 hex digits of a 32-byte random key.              *)
(* The literal "0x" is the character symbol Byte(0).  Every hex text of a  *)
(* digest therefore has the same width (two symbols), as every real one    *)
(* has 66 characters.                                                      *)
(*                                                                         *)
(* Hash.  EVP_sha3_256 is modelled as a collision-free function: the       *)
(* digest of `input` is the term <<0, input>>.                             *)
(***************************************************************************)
EXTENDS Integers, Sequences, FiniteSets, TLC

\* ------------------------------------------------------------------ bounds
\* Longest item list handed to a MerkleTree (and to `merkle` on the command line).
MaxItems == 4
\* Most runs of buildTree on one tree (the constructor's run included).
MaxBuilds == 2

\* ------------------------------------------------------------------ text
Byte(n) == <<n>>

\* Keccak256::hashToBytes: the 32 raw bytes of the digest of input.
hashToBytes(input) == <<0, input>>

\* Keccak256::bytesToHex: "0x" followed by two hex digits per byte.
bytesToHex(bytes) == <<Byte(0), <<1, bytes[2]>>>>

\* Keccak256::hash: the hex text of the digest of input.
hash(input) == bytesToHex(hashToBytes(input))

\* Keccak256::publicKeyToAddress: "0x" and the hex of the last 20 digest bytes.
publicKeyToAddress(publicKey) == <<Byte(0), <<2, hashToBytes(publicKey)[2]>>>>

\* EthereumCrypto::generatePrivateKey for the 32 random bytes `key`.
generatePrivateKey(key) == <<Byte(0), <<3, key>>>>

\* ------------------------------------------------------------------ inputs
ItemA == <<Byte(1)>>
\* An item whose bytes are the text an inner node hashes over two leaves A:
\* hex(h(A)) ++ hex(h(A)).
ItemAA == hash(ItemA) \o hash(ItemA)
Items == {ItemA, ItemAA}

RECURSIVE SeqsUpTo(_, _)
SeqsUpTo(S, n) ==
    IF n = 0 THEN {<<>>}
    ELSE LET shorter == SeqsUpTo(S, n - 1)
         IN shorter \cup {Append(s, x) : s \in {q \in shorter : Len(q) = n - 1}, x \in S}

Inputs == SeqsUpTo(Items, MaxItems)

\* What an out-of-bounds read of a std::string may yield when it does not trap.
Garbage == {<<>>, hash(ItemA)}

\* The MerkleTree objects of a program using the class directly, and main's local.
ApiTrees == {1, 2}
MainTree == 0
Trees == ApiTrees \cup {MainTree}

VARIABLES
    pc,        \* per tree: "none" (no object), "loop" (inside buildTree's while), "built"
    data,      \* per tree: the constructor's argument
    leaves,    \* per tree: MerkleTree::leaves
    levels,    \* per tree: MerkleTree::levels
    builds,    \* per tree: runs of buildTree so far
    ret,       \* the value returned by the operation just performed
    out,       \* the digests written to std::cout by the operation just performed
    oob,       \* the operation just performed read an element out of bounds
    crashed,   \* the process was stopped by such an access
    argv,      \* main's arguments (argv[1] is the program name, argv[2] the command)
    mainPc,    \* "idle", "merkle" (tree under construction), "exited"
    exitCode   \* main's return value once mainPc = "exited"

vars == <<pc, data, leaves, levels, builds, ret, out, oob, crashed, argv, mainPc, exitCode>>
treeVars == <<pc, data, leaves, levels, builds>>
mainVars == <<argv, mainPc, exitCode>>

NoRet == [op |-> "none", tree |-> MainTree, val |-> <<>>]
Last(s) == s[Len(s)]

Init ==
    /\ pc = [t \in Trees |-> "none"]
    /\ data = [t \in Trees |-> <<>>]
    /\ leaves = [t \in Trees |-> <<>>]
    /\ levels = [t \in Trees |-> <<>>]
    /\ builds = [t \in Trees |-> 0]
    /\ ret = NoRet
    /\ out = <<>>
    /\ oob = FALSE
    /\ crashed = FALSE
    /\ argv = <<>>
    /\ mainPc = "idle"
    /\ exitCode = 0

\* ------------------------------------------------------------------ MerkleTree
\* Fault: leaves is one vector shared by every tree (a static member), so a new
\* tree's leaves follow those already pushed by the other trees.
LeavesSharedAcrossTrees(t, d) ==
    LET u == CHOOSE u \in Trees : \A v \in Trees : Len(leaves[u]) >= Len(leaves[v])
    IN leaves[u] \o [i \in 1..Len(d) |-> hash(d[i])]

\* The constructor's loop over data: one leaf pushed per item, in order.
LeavesAfterCtor(t, d) == leaves[t] \o [i \in 1..Len(d) |-> hash(d[i])]

\* Fault: the for-loop stops before an unpaired last element.
ForCondSkipsUnpaired(currentLevel, i) == i + 1 < Len(currentLevel)

\* buildTree's for-loop test, i counted from 0 as in the source.
ForCond(currentLevel, i) == i < Len(currentLevel)

\* Fault: an unpaired last element is carried up unchanged instead of being
\* hashed with itself.
PairHashPromotesUnpaired(currentLevel, i) ==
    IF i + 1 < Len(currentLevel)
    THEN hash(currentLevel[i + 1] \o currentLevel[i + 2])
    ELSE currentLevel[i + 1]

\* Fault: the right operand is read at index i instead of i + 1.
PairHashLeftOnly(currentLevel, i) == hash(currentLevel[i + 1] \o currentLevel[i + 1])

\* Fault: the two operands are put in a canonical order before hashing, so a
\* pair and its mirror image hash alike.
PairHashSorted(currentLevel, i) ==
    IF i + 1 < Len(currentLevel)
    THEN LET l == currentLevel[i + 1]
             r == currentLevel[i + 2]
         IN hash(CHOOSE c \in {l \o r, r \o l} : TRUE)
    ELSE hash(currentLevel[i + 1] \o currentLevel[i + 1])

\* The body of buildTree's for-loop at index i: the node pushed onto newLevel.
PairHash(currentLevel, i) ==
    IF i + 1 < Len(currentLevel)
    THEN hash(currentLevel[i + 1] \o currentLevel[i + 2])
    ELSE hash(currentLevel[i + 1] \o currentLevel[i + 1])

\* buildTree's for-loop from index i on, newLevel being what was pushed so far.
RECURSIVE ReduceFrom(_, _, _)
ReduceFrom(currentLevel, i, newLevel) ==
    IF ForCond(currentLevel, i)
    THEN ReduceFrom(currentLevel, i + 2, Append(newLevel, PairHash(currentLevel, i)))
    ELSE newLevel

\* Fault: the while-loop stops one level early.
WhileCondStopsAtTwo(level) == Len(level) > 2

\* Fault: the while-loop also reduces a level of one element.
WhileCondReducesOne(level) == Len(level) >= 1

\* buildTree's while-loop test on levels.back().
WhileCond(level) == Len(level) > 1

PcAfter(lvls) == IF WhileCond(Last(lvls)) THEN "loop" ELSE "built"

\* getRoot: levels.back()[0].  The set of outcomes: the element when index 0 is
\* in bounds; otherwise the read is undefined and may yield anything or trap.
getRoot(t) ==
    IF Len(Last(levels[t])) > 0
    THEN {[val |-> Last(levels[t])[1], oob |-> FALSE, crash |-> FALSE]}
    ELSE {[val |-> g, oob |-> TRUE, crash |-> FALSE] : g \in Garbage}
         \cup {[val |-> <<>>, oob |-> TRUE, crash |-> TRUE]}

\* printTree's loops over levels: every stored digest, level by level.
RECURSIVE Printed(_)
Printed(lvls) == IF lvls = <<>> THEN <<>> ELSE Head(lvls) \o Printed(Tail(lvls))

\* The program has one thread of control: a member function is entered only
\* when no call is in progress, and never after the process was stopped.
Ready == ~crashed /\ \A u \in Trees : pc[u] # "loop"

\* MerkleTree::MerkleTree(data): hash the leaves, then buildTree() up to its
\* first while test.
Construct(t, d) ==
    /\ Ready
    /\ pc[t] = "none"
    /\ LET lv == LeavesAfterCtor(t, d)
           lvls == Append(levels[t], lv)
       IN /\ leaves' = [leaves EXCEPT ![t] = lv]
          /\ levels' = [levels EXCEPT ![t] = lvls]
          /\ pc' = [pc EXCEPT ![t] = PcAfter(lvls)]
    /\ data' = [data EXCEPT ![t] = d]
    /\ builds' = [builds EXCEPT ![t] = 1]
    /\ ret' = NoRet
    /\ out' = <<>>
    /\ oob' = FALSE /\ UNCHANGED crashed

\* One iteration of buildTree's while-loop, up to the next while test.
ReduceStep(t) ==
    /\ ~crashed
    /\ pc[t] = "loop"
    /\ LET newLevel == ReduceFrom(Last(levels[t]), 0, <<>>)
           lvls == Append(levels[t], newLevel)
       IN /\ levels' = [levels EXCEPT ![t] = lvls]
          /\ pc' = [pc EXCEPT ![t] = PcAfter(lvls)]
    /\ ret' = NoRet
    /\ out' = <<>>
    /\ oob' = FALSE /\ UNCHANGED <<data, leaves, builds, crashed>>

\* A call of the public buildTree() on a constructed tree, up to its first
\* while test.
BuildTree(t) ==
    /\ Ready
    /\ pc[t] = "built"
    /\ builds[t] < MaxBuilds
    /\ LET lvls == Append(levels[t], leaves[t])
       IN /\ levels' = [levels EXCEPT ![t] = lvls]
          /\ pc' = [pc EXCEPT ![t] = PcAfter(lvls)]
    /\ builds' = [builds EXCEPT ![t] = @ + 1]
    /\ ret' = NoRet
    /\ out' = <<>>
    /\ oob' = FALSE /\ UNCHANGED <<data, leaves, crashed>>

\* A call of getRoot().
GetRoot(t) ==
    /\ Ready
    /\ pc[t] = "built"
    /\ \E r \in getRoot(t) :
        /\ ret' = IF r.crash THEN NoRet ELSE [op |-> "getRoot", tree |-> t, val |-> r.val]
        /\ oob' = r.oob
        /\ crashed' = r.crash
    /\ out' = <<>>
    /\ UNCHANGED treeVars

\* A call of printTree(): the levels, then "Merkle Root: " and getRoot().
PrintTree(t) ==
    /\ Ready
    /\ pc[t] = "built"
    /\ \E r \in getRoot(t) :
        /\ out' = IF r.crash THEN Printed(levels[t]) ELSE Append(Printed(levels[t]), r.val)
        /\ oob' = r.oob
        /\ crashed' = r.crash
    /\ ret' = NoRet
    /\ UNCHANGED treeVars

\* The end of a tree's lifetime: its members are released.
Destroy(t) ==
    /\ Ready
    /\ pc[t] = "built"
    /\ pc' = [pc EXCEPT ![t] = "none"]
    /\ data' = [data EXCEPT ![t] = <<>>]
    /\ leaves' = [leaves EXCEPT ![t] = <<>>]
    /\ levels' = [levels EXCEPT ![t] = <<>>]
    /\ builds' = [builds EXCEPT ![t] = 0]
    /\ ret' = NoRet
    /\ out' = <<>>
    /\ oob' = FALSE /\ UNCHANGED crashed

\* ------------------------------------------------------------------ main
\* Command-line words.  argv[1] is the program name (argv[0] in the source),
\* argv[2] the command (source argv[1]), argv[3..] its arguments; argc = Len(argv).
Prog == <<Byte(9)>>
CmdHash == <<Byte(10)>>
CmdAddress == <<Byte(11)>>
CmdMerkle == <<Byte(12)>>
CmdKeygen == <<Byte(13)>>
CmdOther == <<Byte(14)>>
Commands == {CmdHash, CmdAddress, CmdMerkle, CmdKeygen, CmdOther}
Argvs == {<<Prog>>} \cup {<<Prog, c>> \o a : c \in Commands, a \in Inputs}

\* The values RAND_bytes may deliver.
Keys == {<<Byte(20)>>, <<Byte(21)>>}

\* main's test `argc < 2`.
NoCommand(a) == Len(a) < 2
\* main's test `argc < 3` in the hash and address branches.
MissingArgument(a) == Len(a) < 3
\* main's loop `for (i = 2; i < argc; i++) data.push_back(argv[i])`.
MerkleData(a) == SubSeq(a, 3, Len(a))
\* Fault: the empty item list is not rejected.
MerkleNoItemsUnchecked(d) == FALSE

\* main's test `data.empty()`.
MerkleNoItems(d) == d = <<>>

Exit(a, code, printed) ==
    /\ argv' = a
    /\ exitCode' = code
    /\ mainPc' = "exited"
    /\ out' = printed
    /\ ret' = NoRet
    /\ oob' = FALSE

\* main with no command: usage, return 1.
MainUsage(a) ==
    /\ Ready /\ mainPc = "idle"
    /\ NoCommand(a)
    /\ Exit(a, 1, <<>>)
    /\ UNCHANGED <<treeVars, crashed>>

\* main, command "hash".
MainHash(a) ==
    /\ Ready /\ mainPc = "idle"
    /\ ~NoCommand(a) /\ a[2] = CmdHash
    /\ IF MissingArgument(a)
       THEN Exit(a, 1, <<>>)
       ELSE Exit(a, 0, <<a[3], hash(a[3])>>)
    /\ UNCHANGED <<treeVars, crashed>>

\* main, command "address".
MainAddress(a) ==
    /\ Ready /\ mainPc = "idle"
    /\ ~NoCommand(a) /\ a[2] = CmdAddress
    /\ IF MissingArgument(a)
       THEN Exit(a, 1, <<>>)
       ELSE Exit(a, 0, <<a[3], publicKeyToAddress(a[3])>>)
    /\ UNCHANGED <<treeVars, crashed>>

\* main, command "merkle", up to the first while test of the tree's constructor.
MainMerkle(a) ==
    /\ Ready /\ mainPc = "idle"
    /\ ~NoCommand(a) /\ a[2] = CmdMerkle
    /\ IF MerkleNoItems(MerkleData(a))
       THEN /\ Exit(a, 1, <<>>)
            /\ UNCHANGED <<treeVars, crashed>>
       ELSE /\ Construct(MainTree, MerkleData(a))
            /\ argv' = a
            /\ mainPc' = "merkle"
            /\ UNCHANGED exitCode

\* main, command "merkle", after the constructor: tree.printTree(), the end of
\* the tree's scope, return 0.
MainMerklePrint ==
    /\ Ready /\ mainPc = "merkle"
    /\ pc[MainTree] = "built"
    /\ \E r \in getRoot(MainTree) :
        /\ out' = IF r.crash THEN Printed(levels[MainTree])
                  ELSE Append(Printed(levels[MainTree]), r.val)
        /\ oob' = r.oob
        /\ crashed' = r.crash
        /\ IF r.crash
           THEN UNCHANGED <<treeVars, mainPc, exitCode>>
           ELSE /\ pc' = [pc EXCEPT ![MainTree] = "none"]
                /\ data' = [data EXCEPT ![MainTree] = <<>>]
                /\ leaves' = [leaves EXCEPT ![MainTree] = <<>>]
                /\ levels' = [levels EXCEPT ![MainTree] = <<>>]
                /\ builds' = [builds EXCEPT ![MainTree] = 0]
                /\ mainPc' = "exited"
                /\ exitCode' = 0
    /\ ret' = NoRet
    /\ UNCHANGED argv

\* main, command "keygen".
MainKeygen(a) ==
    /\ Ready /\ mainPc = "idle"
    /\ ~NoCommand(a) /\ a[2] = CmdKeygen
    /\ \E key \in Keys : Exit(a, 0, <<generatePrivateKey(key)>>)
    /\ UNCHANGED <<treeVars, crashed>>

\* main, any other command.
MainUnknown(a) ==
    /\ Ready /\ mainPc = "idle"
    /\ ~NoCommand(a) /\ a[2] \notin {CmdHash, CmdAddress, CmdMerkle, CmdKeygen}
    /\ Exit(a, 1, <<a[2]>>)
    /\ UNCHANGED <<treeVars, crashed>>

\* ------------------------------------------------------------------ programs
\* A program that uses the class directly on the objects ApiTrees.
Next ==
    \E t \in ApiTrees :
        \/ \E d \in Inputs : Construct(t, d) /\ UNCHANGED mainVars
        \/ ReduceStep(t) /\ UNCHANGED mainVars
        \/ BuildTree(t) /\ UNCHANGED mainVars
        \/ GetRoot(t) /\ UNCHANGED mainVars
        \/ PrintTree(t) /\ UNCHANGED mainVars
        \/ Destroy(t) /\ UNCHANGED mainVars

Spec == Init /\ [][Next]_vars

\* The same program with a single object.  A call in progress keeps running:
\* the loop iteration that is enabled is eventually executed.
NextOne ==
    \/ \E d \in Inputs : Construct(1, d) /\ UNCHANGED mainVars
    \/ ReduceStep(1) /\ UNCHANGED mainVars
    \/ BuildTree(1) /\ UNCHANGED mainVars
    \/ GetRoot(1) /\ UNCHANGED mainVars
    \/ PrintTree(1) /\ UNCHANGED mainVars
    \/ Destroy(1) /\ UNCHANGED mainVars

FairSpec == Init /\ [][NextOne]_vars /\ WF_vars(ReduceStep(1) /\ UNCHANGED mainVars)

\* The command-line program.
NextMain ==
    \/ \E a \in Argvs : MainUsage(a)
    \/ \E a \in Argvs : MainHash(a)
    \/ \E a \in Argvs : MainAddress(a)
    \/ \E a \in Argvs : MainMerkle(a)
    \/ ReduceStep(MainTree) /\ UNCHANGED mainVars
    \/ MainMerklePrint
    \/ \E a \in Argvs : MainKeygen(a)
    \/ \E a \in Argvs : MainUnknown(a)

SpecMain == Init /\ [][NextMain]_vars

\* ------------------------------------------------------------------ properties
Built(t) == pc[t] = "built"
\* The tree as its constructor left it: buildTree has run once.
AsConstructed(t) == pc[t] # "none" /\ builds[t] = 1
\* The first digest of the last stored level.
StoredRoot(t) == Last(levels[t])[1]
Defined(v) == {[val |-> v, oob |-> FALSE, crash |-> FALSE]}
Returned(t) == ret.op = "getRoot" /\ ret.tree = t
Count(d, x) == Cardinality({i \in 1..Len(d) : d[i] = x})
IsReordering(d, e) == Len(d) = Len(e) /\ d # e /\ \A x \in Items : Count(d, x) = Count(e, x)

\* C1: for a non-empty input, a run of buildTree that has started ends, and
\* whenever the tree is built its last stored level holds exactly one digest,
\* which is the one getRoot returns.
C1_TerminatesWithSingleRoot ==
    /\ [](\A t \in Trees :
            (Built(t) /\ data[t] # <<>>) =>
                /\ Len(Last(levels[t])) = 1
                /\ getRoot(t) = Defined(StoredRoot(t))
                /\ (Returned(t) => ret.val = StoredRoot(t)))
    /\ \A t \in Trees : (pc[t] = "loop" /\ data[t] # <<>>) ~> Built(t)

C1_Witness ==
    \E t \in Trees :
        /\ Built(t) /\ builds[t] = 1 /\ Len(data[t]) = 3
        /\ Len(levels[t]) = 3 /\ Len(Last(levels[t])) = 1
        /\ Returned(t) /\ ret.val = StoredRoot(t)

\* C2: level 0 of the constructed tree has one digest per input item,
\* level0[i] = hash(item[i]) in input order, and each stored level after it has
\* ceil(n / 2) digests, n being the length of the level before it.
C2_LevelShape ==
    \A t \in Trees :
        AsConstructed(t) =>
            /\ Len(levels[t]) >= 1
            /\ Len(levels[t][1]) = Len(data[t])
            /\ \A i \in 1..Len(data[t]) : levels[t][1][i] = hash(data[t][i])
            /\ \A i \in 1..(Len(levels[t]) - 1) :
                   Len(levels[t][i + 1]) = (Len(levels[t][i]) + 1) \div 2

C2_Witness ==
    \E t \in Trees :
        /\ AsConstructed(t) /\ Built(t) /\ Len(data[t]) = 3
        /\ Len(levels[t]) = 3
        /\ Len(levels[t][1]) = 3 /\ Len(levels[t][2]) = 2 /\ Len(levels[t][3]) = 1

\* C3: every node above the leaves is the hash of the concatenated 0x-prefixed
\* hex texts of the fixed pair (2k, 2k+1) below it, the unpaired last digest of
\* an odd level being paired with itself; so [A,B] has root
\* hash(hex(h(A)) ++ hex(h(B))) and [A,B,C] has level 1 =
\* [hash(hex(h(A)) ++ hex(h(B))), hash(hex(h(C)) ++ hex(h(C)))].
C3_PairwiseNodes ==
    \A t \in Trees :
        AsConstructed(t) =>
            /\ \A i \in 1..Len(levels[t]) : \A k \in 1..Len(levels[t][i]) :
                   Len(levels[t][i][k]) = 2 /\ levels[t][i][k][1] = Byte(0)
            /\ \A i \in 1..(Len(levels[t]) - 1) : \A k \in 1..Len(levels[t][i + 1]) :
                   LET below == levels[t][i]
                   IN IF 2 * k <= Len(below)
                      THEN levels[t][i + 1][k] = hash(below[2 * k - 1] \o below[2 * k])
                      ELSE /\ Len(below) % 2 = 1
                           /\ 2 * k - 1 = Len(below)
                           /\ levels[t][i + 1][k] = hash(below[2 * k - 1] \o below[2 * k - 1])
            /\ (Built(t) /\ Len(data[t]) = 2) =>
                   StoredRoot(t) = hash(hash(data[t][1]) \o hash(data[t][2]))
            /\ (Len(data[t]) = 3 /\ Len(levels[t]) >= 2) =>
                   levels[t][2] = << hash(hash(data[t][1]) \o hash(data[t][2])),
                                     hash(hash(data[t][3]) \o hash(data[t][3])) >>
            /\ (Built(t) /\ Len(data[t]) = 3) =>
                   StoredRoot(t) = hash(levels[t][2][1] \o levels[t][2][2])

C3_Witness ==
    \E t \in Trees :
        /\ AsConstructed(t) /\ Built(t) /\ Len(data[t]) = 3
        /\ data[t][1] # data[t][2]
        /\ levels[t][2][2] = hash(hash(data[t][3]) \o hash(data[t][3]))

\* C4: once a tree is constructed (from a non-empty input), no call of a public
\* operation (getRoot, printTree, buildTree) changes its stored levels or the
\* value getRoot returns.
C4_NeverMutated ==
    [][\A t \in Trees :
         (Built(t) /\ data[t] # <<>> /\ pc'[t] # "none") =>
             /\ levels'[t] = levels[t]
             /\ StoredRoot(t)' = StoredRoot(t)]_vars

\* C5: no operation ever reads an element out of bounds; an empty item list
\* ends in a defined outcome.
C5_NoOutOfBoundsAccess == ~oob /\ ~crashed

\* C6 as stated: two different non-empty inputs, of equal or different
\* lengths, never have the same root.
C6_DifferentInputsDifferentRoots ==
    \A t, u \in Trees :
        (Built(t) /\ Built(u) /\ data[t] # <<>> /\ data[u] # <<>> /\ data[t] # data[u])
            => StoredRoot(t) # StoredRoot(u)

\* C6 as amended: two different non-empty inputs of the same length never
\* have the same root.
C6_EqualLengthDifferentRoots ==
    \A t, u \in Trees :
        (/\ Built(t) /\ Built(u)
         /\ data[t] # <<>> /\ data[t] # data[u]
         /\ Len(data[t]) = Len(data[u]))
            => /\ StoredRoot(t) # StoredRoot(u)
               /\ getRoot(t) # getRoot(u)

C6_Witness ==
    \E t, u \in Trees :
        /\ Built(t) /\ Built(u)
        /\ Len(data[t]) = 3 /\ Len(data[u]) = 3 /\ data[t] # data[u]
        /\ data[t][1] = ItemAA
        /\ StoredRoot(t) # StoredRoot(u)

\* C7: reordering an input of length >= 2 into a different sequence of the
\* same items changes the root.
C7_OrderSensitive ==
    \A t, u \in Trees :
        (/\ Built(t) /\ Built(u)
         /\ Len(data[t]) >= 2
         /\ IsReordering(data[t], data[u]))
            => StoredRoot(t) # StoredRoot(u)

C7_Witness ==
    \E t, u \in Trees :
        /\ Built(t) /\ Built(u)
        /\ Len(data[t]) = 3 /\ IsReordering(data[t], data[u])
        /\ StoredRoot(t) # StoredRoot(u)

\* C8: for a single-item input the while-loop is never entered, exactly one
\* level is stored, and getRoot returns hash(item), which is not
\* hash(hex(h(item)) ++ hex(h(item))).
C8_SingleItemCollapses ==
    \A t \in Trees :
        (AsConstructed(t) /\ Len(data[t]) = 1) =>
            /\ Built(t)
            /\ Len(levels[t]) = 1
            /\ getRoot(t) = Defined(hash(data[t][1]))
            /\ (Returned(t) => ret.val = hash(data[t][1]))
            /\ StoredRoot(t) # hash(hash(data[t][1]) \o hash(data[t][1]))

C8_Witness ==
    \E t \in Trees :
        /\ AsConstructed(t) /\ Built(t) /\ Len(data[t]) = 1
        /\ Returned(t) /\ ret.val = hash(data[t][1])

\* C9: main returns non-zero exactly on a usage error (no command, hash or
\* address without its argument, merkle with no items) or an unrecognized
\* command, zero otherwise; and it constructs a tree only for merkle with at
\* least one item.
C9_ExitCodes ==
    LET argc == Len(argv)
        usageError ==
            \/ argc < 2
            \/ argc = 2 /\ argv[2] \in {CmdHash, CmdAddress, CmdMerkle}
        unknown == argc >= 2 /\ argv[2] \notin {CmdHash, CmdAddress, CmdMerkle, CmdKeygen}
    IN /\ mainPc = "exited" => ((exitCode # 0) <=> (usageError \/ unknown))
       /\ mainPc = "exited" => exitCode \in {0, 1}
       /\ (mainPc # "idle" /\ pc[MainTree] # "none") => (argv[2] = CmdMerkle /\ argc >= 3)
       /\ (mainPc = "merkle") => (pc[MainTree] # "none" /\ data[MainTree] = MerkleData(argv))
       /\ (mainPc = "exited" /\ exitCode = 0 /\ argv[2] = CmdMerkle) => out # <<>>

C9_Witness ==
    /\ mainPc = "exited" /\ exitCode = 0
    /\ argv[2] = CmdMerkle /\ Len(argv) = 5
    /\ Len(out) = 7

\* C10: two trees built from the same input hold identical levels and return
\* identical roots, whatever was built before or between them.
C10_Deterministic ==
    \A t, u \in Trees :
        (Built(t) /\ Built(u) /\ data[t] = data[u]) =>
            /\ leaves[t] = leaves[u]
            /\ builds[t] = builds[u] => levels[t] = levels[u]
            /\ data[t] # <<>> => getRoot(t) = getRoot(u)

C10_Witness ==
    \E t, u \in Trees :
        /\ t # u /\ Built(t) /\ Built(u)
        /\ data[t] = data[u] /\ Len(data[t]) = 3
        /\ builds[t] = builds[u]
        /\ levels[t] = levels[u] /\ Len(levels[t]) = 3

====
